---- MODULE Spec2Model ----
(***************************************************************************)
(* Model of xformers' fused backward pass of a linear layer with an        *)
(* activation (xformers/triton/k_fused_matmul_bw.py): the host function    *)
(* fused_matmul_backward and the two Triton kernels it owns,               *)
(* kernel_bw_act and kernel_matmul_transpose, executed tile by tile.       *)
(*                                                                         *)
(* Matrices are functions [0..R-1 -> [0..C-1 -> value]], indexed from 0    *)
(* like the code's row and column indices.  Values are bounded integers    *)
(* plus one non-finite value NaN, which an out-of-range read or a read of  *)
(* an uninitialised (torch.empty) cell may produce.                        *)
(***************************************************************************)
EXTENDS Integers, Sequences, FiniteSets, TLC

VARIABLES
    kernel,     \* the kernel that is launched: "none", "kernel_bw_act", "kernel_matmul_transpose"
    meta,       \* the launch's scalar arguments and meta-parameters
    mem,        \* the device buffers the kernel's pointer arguments name
    pending,    \* program ids of the launch grid that have not run yet
    accesses,   \* every element a program loaded or stored: <<pid, op, buffer, row, col>>
    executed,   \* the mask and memory statements a program executed: <<pid, line, op>>
    pc,         \* where fused_matmul_backward stands
    call,       \* the arguments of the call of fused_matmul_backward
    loc,        \* its local variables
    allocs,     \* the gradient buffers it has allocated
    ops,        \* the kernels, reductions and matrix products it has run, in order
    ret,        \* what it returned, or the error it raised
    in_proj,    \* the InputProjection: not built yet, built, or failed at construction
    multi_head, \* the MultiHeadDispatch built around it
    fwd         \* the last call of MultiHeadDispatch.forward and its outcome

kvars == <<kernel, meta, mem, pending, accesses, executed>>

hvars == <<pc, call, loc, allocs, ops, ret>>

avars == <<in_proj, multi_head, fwd>>

vars == <<kernel, meta, mem, pending, accesses, executed, pc, call, loc, allocs, ops, ret,
          in_proj, multi_head, fwd>>

-----------------------------------------------------------------------------
(* Bounds of the model *)

MaxM == 3
MaxN == 3
MaxK == 2
MaxTiles == 4
MaxBatch == 3
MaxSeq == 2

\* the widest row of output tiles, and the largest group, of the launches that
\* exercise the grouped ordering of kernel_matmul_transpose
MaxPidN == 6
MaxGroupN == 4

\* the seeds of the input matrices
Seeds == {0, 1}

\* tl.arange needs a power of two
BlockSizes == {1, 2}

-----------------------------------------------------------------------------
(* Values *)

\* a non-finite float: what memory outside a buffer, or a torch.empty cell, may hold
NaN == 1000000

Mul(x, y) == IF x = NaN \/ y = NaN THEN NaN ELSE x * y

Add(x, y) == IF x = NaN \/ y = NaN THEN NaN ELSE x + y

Arange(n) == 0 .. (n - 1)

cdiv(x, y) == (x + y - 1) \div y

RECURSIVE SumTo(_, _)
\* f[0] + ... + f[n-1]
SumTo(f, n) == IF n = 0 THEN 0 ELSE Add(SumTo(f, n - 1), f[n - 1])

Rows(X) == Cardinality(DOMAIN X)

Cols(X) == IF DOMAIN X = {} THEN 0 ELSE Cardinality(DOMAIN X[0])

InRange(X, r, c) == r \in DOMAIN X /\ c \in DOMAIN X[r]

\* the input matrices of a run: entries in -2..2, fixed by a seed
Gen(seed, salt, r, c) == (((seed + 1) * (3 * r + 5 * c + salt) + r * c + salt) % 5) - 2

GenMatrix(seed, salt, R, C) == [r \in Arange(R) |-> [c \in Arange(C) |-> Gen(seed, salt, r, c)]]

Filled(R, C, v) == [r \in Arange(R) |-> [c \in Arange(C) |-> v]]

\* the activation derivatives a caller may pass as ACTIVATION_GRAD
ActivationGrads == {"squared_relu_grad", "one_minus_grad"}

ActivationGradOf(name, x) ==
    IF x = NaN THEN NaN
    ELSE CASE name = "squared_relu_grad" -> IF x > 0 THEN 2 * x ELSE 0
           [] name = "one_minus_grad" -> 1 - x

-----------------------------------------------------------------------------
(* Device memory *)

\* tl.load of one element: an element outside the buffer reads whatever lies there
Read(buf, r, c) == IF InRange(mem[buf], r, c) THEN mem[buf][r][c] ELSE mem.garbage

\* tl.load(ptrs, mask=mask, other=0.0) of one element
MaskedLoad(buf, r, c, mask) == IF mask THEN Read(buf, r, c) ELSE 0

\* the buffer after the stores st (a function from <<row, col>> to the value stored):
\* a store outside the buffer does not land in it
Stored(X, st) ==
    [r \in DOMAIN X |-> [c \in DOMAIN X[r] |->
        IF <<r, c>> \in DOMAIN st THEN st[<<r, c>>] ELSE X[r][c]]]

-----------------------------------------------------------------------------
(* kernel_bw_act: one program per tile (pid_m, pid_n) *)

EvenBlocksBwActOnlyM(M, N, BLOCK_M, BLOCK_N) == M % BLOCK_M = 0

\* the EVEN_BLOCKS heuristic of kernel_bw_act
EvenBlocksBwAct(M, N, BLOCK_M, BLOCK_N) == M % BLOCK_M = 0 /\ N % BLOCK_N = 0

\* rm = pid_m * BLOCK_M + tl.arange(0, BLOCK_M)
BwAct_rm(pid_m) == {pid_m * meta.BLOCK_M + i : i \in Arange(meta.BLOCK_M)}

\* rn = pid_n * BLOCK_N + tl.arange(0, BLOCK_N)
BwAct_rn(pid_n) == {pid_n * meta.BLOCK_N + j : j \in Arange(meta.BLOCK_N)}

\* mask_rn[None, :] & mask_rm[:, None]
BwAct_mask(r, c) == c < meta.N /\ r < meta.M

\* whether the load or store of element (r, c) happens: always on the unmasked path
BwAct_touches(r, c) == meta.EVEN_BLOCKS \/ BwAct_mask(r, c)

\* act_in = tl.load(act_input_ptrs [, mask, other=0.0])
BwAct_act_in(r, c) ==
    IF meta.EVEN_BLOCKS THEN Read("ACT_INPUTS", r, c)
    ELSE MaskedLoad("ACT_INPUTS", r, c, BwAct_mask(r, c))

\* grad_out = tl.load(grad_out_ptrs [, mask, other=0.0])
BwAct_grad_out(r, c) ==
    IF meta.EVEN_BLOCKS THEN Read("GRAD_OUT", r, c)
    ELSE MaskedLoad("GRAD_OUT", r, c, BwAct_mask(r, c))

BwAct_grad_act_NoGradOut(r, c) == ActivationGradOf(meta.ACTIVATION_GRAD, BwAct_act_in(r, c))

\* grad_act = ACTIVATION_GRAD(act_in); grad_act *= grad_out
BwAct_grad_act(r, c) ==
    Mul(ActivationGradOf(meta.ACTIVATION_GRAD, BwAct_act_in(r, c)), BwAct_grad_out(r, c))

\* tl.store(grad_act_ptrs, grad_act [, mask])
BwAct_stores(pid) ==
    LET cells == {p \in BwAct_rm(pid[1]) \X BwAct_rn(pid[2]) : BwAct_touches(p[1], p[2])}
    IN  [p \in cells |-> BwAct_grad_act(p[1], p[2])]

\* d_out = tl.where(mask, grad_act, 0.0); d_bias = tl.sum(d_out, axis=0), for column c
BwAct_d_bias(pid, c) ==
    LET d_out == [i \in Arange(meta.BLOCK_M) |->
                    LET r == pid[1] * meta.BLOCK_M + i
                    IN  IF BwAct_mask(r, c) THEN BwAct_grad_act(r, c) ELSE 0]
    IN  SumTo(d_out, meta.BLOCK_M)

BwAct_bias_row_Zero(pid_m) == 0

\* the row of GRAD_BIAS a program stores to: GRAD_BIAS + pid_m * stride_bm + rn
BwAct_bias_row(pid_m) == pid_m

\* tl.store(GRAD_BIAS + pid_m * stride_bm + rn, d_bias, mask=rn < N), when COMPUTE_D_BIAS
BwAct_bias_stores(pid) ==
    LET cells == IF meta.COMPUTE_D_BIAS
                 THEN {<<BwAct_bias_row(pid[1]), c>> : c \in {x \in BwAct_rn(pid[2]) : x < meta.N}}
                 ELSE {}
    IN  [p \in cells |-> BwAct_d_bias(pid, p[2])]

\* every element the program loads or stores
BwAct_accesses(pid) ==
    LET tile == {p \in BwAct_rm(pid[1]) \X BwAct_rn(pid[2]) : BwAct_touches(p[1], p[2])}
        \* line 79 loads grad_out under the mask on both paths
        pre == {p \in BwAct_rm(pid[1]) \X BwAct_rn(pid[2]) : BwAct_mask(p[1], p[2])}
    IN  {<<pid, "load", "ACT_INPUTS", p[1], p[2]>> : p \in tile}
        \cup {<<pid, "load", "GRAD_OUT", p[1], p[2]>> : p \in tile \cup pre}
        \cup {<<pid, "store", "GRAD_ACT", p[1], p[2]>> : p \in tile}
        \cup {<<pid, "store", "GRAD_BIAS", p[1], p[2]>> : p \in DOMAIN BwAct_bias_stores(pid)}

\* the mask computations, loads, stores and selects the program executes, by source line
BwAct_executed(pid) ==
    {<<pid, 66, "mask">>, <<pid, 67, "mask">>}
    \cup (IF meta.EVEN_BLOCKS THEN {<<pid, 71, "load">>} ELSE {<<pid, 73, "masked_load">>})
    \cup {<<pid, 79, "masked_load">>}
    \cup (IF meta.EVEN_BLOCKS THEN {<<pid, 82, "load">>} ELSE {<<pid, 84, "masked_load">>})
    \cup (IF meta.EVEN_BLOCKS THEN {<<pid, 91, "store">>} ELSE {<<pid, 93, "masked_store">>})
    \cup (IF meta.COMPUTE_D_BIAS THEN {<<pid, 97, "where">>, <<pid, 99, "masked_store">>}
          ELSE {})

\* grid = (cdiv(M, BLOCK_M), cdiv(N, BLOCK_N))
BwActGrid(M, N, BLOCK_M, BLOCK_N) == Arange(cdiv(M, BLOCK_M)) \X Arange(cdiv(N, BLOCK_N))

\* one program of kernel_bw_act runs
KernelBwAct(pid) ==
    /\ kernel = "kernel_bw_act"
    /\ pid \in pending
    /\ pending' = pending \ {pid}
    /\ mem' = [mem EXCEPT !.GRAD_ACT = Stored(@, BwAct_stores(pid)),
                          !.GRAD_BIAS = Stored(@, BwAct_bias_stores(pid))]
    /\ accesses' = accesses \cup BwAct_accesses(pid)
    /\ executed' = executed \cup BwAct_executed(pid)
    /\ UNCHANGED <<kernel, meta, hvars, avars>>

-----------------------------------------------------------------------------
(* kernel_matmul_transpose: Out = A^T x B, one program per output tile *)

\* the EVEN_BLOCKS heuristic of kernel_matmul_transpose
EvenBlocksMatmulT(M, N, K, BLOCK_M, BLOCK_N, BLOCK_K) ==
    K % BLOCK_K = 0 /\ M % BLOCK_M = 0 /\ N % BLOCK_N = 0

Min(x, y) == IF x < y THEN x ELSE y

\* the grouping without "GROUP_N = min(num_pid_n - first_pid_n, GROUP_N)"
MT_tile_NoClamp(pid) ==
    LET num_pid_k == cdiv(meta.K, meta.BLOCK_K)
        num_pid_in_group == meta.GROUP_N * num_pid_k
        first_pid_n == (pid \div num_pid_in_group) * meta.GROUP_N
    IN  [pid_n |-> first_pid_n + (pid % meta.GROUP_N),
         pid_k |-> (pid % num_pid_in_group) \div meta.GROUP_N]

\* the grouped ordering of the programs: pid -> (pid_n, pid_k)
MT_tile(pid) ==
    LET num_pid_n == cdiv(meta.N, meta.BLOCK_N)
        num_pid_k == cdiv(meta.K, meta.BLOCK_K)
        num_pid_in_group == meta.GROUP_N * num_pid_k
        group_id == pid \div num_pid_in_group
        first_pid_n == group_id * meta.GROUP_N
        GROUP_N == Min(num_pid_n - first_pid_n, meta.GROUP_N)
    IN  [pid_n |-> first_pid_n + (pid % GROUP_N),
         pid_k |-> (pid % num_pid_in_group) \div GROUP_N]

\* the integer a boolean (int1) operand is promoted to: zero- or sign-extended by the build
BoolToInt(b) == IF b THEN (IF meta.sext THEN -1 ELSE 1) ELSE 0

\* flag & r for flag in {0, 1, -1} and r >= 0
BitAnd(flag, r) == IF flag = 0 THEN 0 ELSE IF flag = 1 THEN r % 2 ELSE r

\* mask of the load of A: (rm[None, :] < M) & mask_rn[:, None]
MT_a_mask(r, rn) == r < meta.M /\ rn < meta.N

\* mask of the load of B as written: ((mask_rk[None, :] < K) & rm[:, None] < M),
\* which Python reads as ((mask_rk < K) & rm) < M
MT_b_mask(r, rk) ==
    LET mask_rk == rk < meta.K
        lt_K == BoolToInt(mask_rk) < meta.K
    IN  BitAnd(BoolToInt(lt_K), r) < meta.M

\* the rows the loop "for i in range(0, M, BLOCK_M)" covers
MT_rows == Arange(cdiv(meta.M, meta.BLOCK_M) * meta.BLOCK_M)

\* the element of a for row r of A and column rn (address column ran = rn % N)
MT_a(r, rn) ==
    IF meta.EVEN_BLOCKS THEN Read("A", r, rn % meta.N)
    ELSE MaskedLoad("A", r, rn % meta.N, MT_a_mask(r, rn))

\* the element of b for row r of B and column rk (address column rbk = rk % K)
MT_b(r, rk) ==
    IF meta.EVEN_BLOCKS THEN Read("B", r, rk % meta.K)
    ELSE MaskedLoad("B", r, rk % meta.K, MT_b_mask(r, rk))

\* acc += tl.dot(a, b) over the loop, for output element (rn, rk)
MT_acc(rn, rk) ==
    SumTo([r \in MT_rows |-> Mul(MT_a(r, rn), MT_b(r, rk))], Cardinality(MT_rows))

MT_rn(pid) == {MT_tile(pid).pid_n * meta.BLOCK_N + j : j \in Arange(meta.BLOCK_N)}

MT_rk(pid) == {MT_tile(pid).pid_k * meta.BLOCK_K + j : j \in Arange(meta.BLOCK_K)}

\* tl.store(out_ptrs, acc [, mask=mask_rn[:, None] & mask_rk[None, :]])
MT_stores(pid) ==
    LET cells == {p \in MT_rn(pid) \X MT_rk(pid) :
                    meta.EVEN_BLOCKS \/ (p[1] < meta.N /\ p[2] < meta.K)}
    IN  [p \in cells |-> MT_acc(p[1], p[2])]

\* every element the program loads or stores
MT_accesses(pid) ==
    {<<pid, "load", "A", r, rn % meta.N>> :
        <<r, rn>> \in {q \in MT_rows \X MT_rn(pid) : meta.EVEN_BLOCKS \/ MT_a_mask(q[1], q[2])}}
    \cup {<<pid, "load", "B", r, rk % meta.K>> :
        <<r, rk>> \in {q \in MT_rows \X MT_rk(pid) : meta.EVEN_BLOCKS \/ MT_b_mask(q[1], q[2])}}
    \cup {<<pid, "store", "C", p[1], p[2]>> : p \in DOMAIN MT_stores(pid)}

\* the mask computations, loads and stores the program executes, by source line
MT_executed(pid) ==
    IF meta.EVEN_BLOCKS
    THEN {<<pid, 218, "load">>, <<pid, 219, "load">>, <<pid, 231, "store">>}
    ELSE {<<pid, 211, "mask">>, <<pid, 212, "mask">>, <<pid, 221, "masked_load">>,
          <<pid, 222, "masked_load">>, <<pid, 233, "masked_store">>}

\* grid_ = (cdiv(N, BLOCK_N) * cdiv(K, BLOCK_K),)
MatmulTGrid(N, K, BLOCK_N, BLOCK_K) == Arange(cdiv(N, BLOCK_N) * cdiv(K, BLOCK_K))

\* one program of kernel_matmul_transpose runs
KernelMatmulTranspose(pid) ==
    /\ kernel = "kernel_matmul_transpose"
    /\ pid \in pending
    /\ pending' = pending \ {pid}
    /\ mem' = [mem EXCEPT !.C = Stored(@, MT_stores(pid))]
    /\ accesses' = accesses \cup MT_accesses(pid)
    /\ executed' = executed \cup MT_executed(pid)
    /\ UNCHANGED <<kernel, meta, hvars, avars>>

-----------------------------------------------------------------------------
(* Launching the kernels *)

\* BLOCK_M = min(triton.next_power_of_2(M), 2048)
HOST_BLOCK_M_CAP == 2048

\* BLOCK_N = 16
HOST_BLOCK_N == 16

\* GROUP_N=8
HOST_GROUP_N == 8

\* what memory outside the buffers and torch.empty cells may hold: a finite value or not
GarbageValues == {1, NaN}

\* GROUP_N: small groups, and the host's GROUP_N=8
GroupSizes == {1, 2, HOST_GROUP_N}

NoBuffer == << >>

NoMeta == [M |-> 0, N |-> 0, K |-> 0, BLOCK_M |-> 1, BLOCK_N |-> 1, BLOCK_K |-> 1,
           GROUP_N |-> 1, EVEN_BLOCKS |-> FALSE, ACTIVATION_GRAD |-> "None",
           COMPUTE_D_BIAS |-> FALSE, sext |-> FALSE]

NoMem == [GRAD_ACT |-> NoBuffer, GRAD_BIAS |-> NoBuffer, GRAD_OUT |-> NoBuffer,
          ACT_INPUTS |-> NoBuffer, C |-> NoBuffer, A |-> NoBuffer, B |-> NoBuffer,
          garbage |-> NaN]

\* the arguments kernel_bw_act[grid](...) is launched with
BwActMeta(M, N, BLOCK_M, BLOCK_N, activation_grad, trainable_bias) ==
    [NoMeta EXCEPT !.M = M, !.N = N, !.BLOCK_M = BLOCK_M, !.BLOCK_N = BLOCK_N,
                   !.EVEN_BLOCKS = EvenBlocksBwAct(M, N, BLOCK_M, BLOCK_N),
                   !.ACTIVATION_GRAD = activation_grad,
                   !.COMPUTE_D_BIAS = trainable_bias]

BiasRowsOne(M, BLOCK_M) == 1

\* rows of the partial bias sums: torch.zeros((triton.cdiv(M, BLOCK_M), N))
BiasRows(M, BLOCK_M) == cdiv(M, BLOCK_M)

\* grad_act = torch.empty_like(grad_out_); grad_bias = torch.zeros(...) when trainable_bias
BwActMem(grad_out_, act_in, M, N, BLOCK_M, trainable_bias, garbage) ==
    [NoMem EXCEPT !.GRAD_ACT = Filled(Rows(grad_out_), Cols(grad_out_), garbage),
                  !.GRAD_BIAS = IF trainable_bias THEN Filled(BiasRows(M, BLOCK_M), N, 0)
                                ELSE grad_out_,
                  !.GRAD_OUT = grad_out_,
                  !.ACT_INPUTS = act_in,
                  !.garbage = garbage]

\* the arguments kernel_matmul_transpose[grid_](...) is launched with
MatmulTMeta(M, N, K, BLOCK_M, BLOCK_N, BLOCK_K, GROUP_N, sext) ==
    [NoMeta EXCEPT !.M = M, !.N = N, !.K = K,
                   !.BLOCK_M = BLOCK_M, !.BLOCK_N = BLOCK_N, !.BLOCK_K = BLOCK_K,
                   !.GROUP_N = GROUP_N,
                   !.EVEN_BLOCKS = EvenBlocksMatmulT(M, N, K, BLOCK_M, BLOCK_N, BLOCK_K),
                   !.sext = sext]

\* grad_weight = torch.empty_like(weight)
MatmulTMem(A, B, N, K, garbage) ==
    [NoMem EXCEPT !.C = Filled(N, K, garbage), !.A = A, !.B = B, !.garbage = garbage]

NoCall == [gshape |-> << >>, contiguous |-> TRUE, grad_out |-> NoBuffer,
           ishape |-> << >>, inputs |-> NoBuffer, act_in |-> NoBuffer, weight |-> NoBuffer,
           trainable_weight |-> FALSE, trainable_bias |-> FALSE, activation_grad |-> "None"]

NoLoc == [M |-> 0, N |-> 0, K |-> 0, grad_out_ |-> NoBuffer, grad_bias |-> NoBuffer,
          grad_weight |-> NoBuffer]

NoRet == [error |-> "", grad_in |-> NoBuffer, shape |-> << >>, grad_weight |-> NoBuffer,
          grad_bias |-> NoBuffer]

HostIdle ==
    /\ pc = "none" /\ call = NoCall /\ loc = NoLoc /\ allocs = {} /\ ops = << >>
    /\ ret = NoRet

KernelIdle ==
    /\ kernel = "none" /\ meta = NoMeta /\ mem = NoMem /\ pending = {} /\ accesses = {}
    /\ executed = {}

NoParams == [out_features |-> 0, bias |-> FALSE]

NoTensor == [id |-> 0, batch |-> 0, seq |-> 0, data |-> << >>]

NoProjection == [state |-> "none", self_attention |-> FALSE, query |-> NoParams,
                 key |-> NoParams, value |-> NoParams]

NoDispatch == [state |-> "none", self_attention |-> FALSE, causal |-> FALSE,
               requires_same_k_q_dimensions |-> FALSE, dim_model |-> 0]

NoForward == [status |-> "none", error |-> "", shape |-> << >>, out |-> << >>,
              query |-> NoTensor, key |-> NoTensor, value |-> NoTensor]

AttentionIdle == in_proj = NoProjection /\ multi_head = NoDispatch /\ fwd = NoForward

\* a kernel launched on its own over its grid, with the block sizes as meta-parameters
InitKernel ==
    /\ HostIdle
    /\ AttentionIdle
    /\ accesses = {} /\ executed = {}
    /\ \E M \in 1..MaxM, N \in 1..MaxN, seed \in Seeds, garbage \in GarbageValues :
        \/ \E BLOCK_M \in BlockSizes, BLOCK_N \in BlockSizes,
              activation_grad \in ActivationGrads, trainable_bias \in BOOLEAN :
            /\ Cardinality(BwActGrid(M, N, BLOCK_M, BLOCK_N)) <= MaxTiles
            /\ kernel = "kernel_bw_act"
            /\ meta = BwActMeta(M, N, BLOCK_M, BLOCK_N, activation_grad, trainable_bias)
            /\ mem = BwActMem(GenMatrix(seed, 0, M, N), GenMatrix(seed, 1, M, N),
                              M, N, BLOCK_M, trainable_bias, garbage)
            /\ pending = BwActGrid(M, N, BLOCK_M, BLOCK_N)
        \/ \E K \in 1..MaxK, BLOCK_M \in BlockSizes, BLOCK_N \in BlockSizes,
              BLOCK_K \in BlockSizes, GROUP_N \in GroupSizes, sext \in BOOLEAN :
            /\ Cardinality(MatmulTGrid(N, K, BLOCK_N, BLOCK_K)) <= MaxTiles
            /\ kernel = "kernel_matmul_transpose"
            /\ meta = MatmulTMeta(M, N, K, BLOCK_M, BLOCK_N, BLOCK_K, GROUP_N, sext)
            /\ mem = MatmulTMem(GenMatrix(seed, 0, M, N), GenMatrix(seed, 2, M, K), N, K, garbage)
            /\ pending = MatmulTGrid(N, K, BLOCK_N, BLOCK_K)

NextKernel ==
    \/ \E pid \in pending : KernelBwAct(pid)
    \/ \E pid \in pending : KernelMatmulTranspose(pid)

SpecKernel == InitKernel /\ [][NextKernel]_vars

\* the group sizes of the launches over wide grids
WideGroupSizes == (1 .. MaxGroupN) \cup {HOST_GROUP_N}

\* kernel_matmul_transpose launched over a grid of up to MaxPidN rows of output tiles,
\* on matrices of one row
InitGrouping ==
    /\ HostIdle
    /\ AttentionIdle
    /\ accesses = {} /\ executed = {}
    /\ \E N \in 1..MaxPidN, K \in 1..MaxK, BLOCK_N \in BlockSizes, BLOCK_K \in BlockSizes,
          GROUP_N \in WideGroupSizes, sext \in BOOLEAN :
        /\ kernel = "kernel_matmul_transpose"
        /\ meta = MatmulTMeta(1, N, K, 1, BLOCK_N, BLOCK_K, GROUP_N, sext)
        /\ mem = MatmulTMem(GenMatrix(0, 0, 1, N), GenMatrix(0, 2, 1, K), N, K, NaN)
        /\ pending = MatmulTGrid(N, K, BLOCK_N, BLOCK_K)

\* the programs of the grid run one after the other, in the order of their ids
KernelMatmulTransposeInOrder ==
    \E pid \in pending :
        /\ \A q \in pending : pid <= q
        /\ KernelMatmulTranspose(pid)

NextGrouping == KernelMatmulTransposeInOrder

SpecGrouping == InitGrouping /\ [][NextGrouping]_vars

-----------------------------------------------------------------------------
(* Dense operations the host calls *)

\* X[r][c], or what lies outside X
At(X, r, c) == IF InRange(X, r, c) THEN X[r][c] ELSE NaN

\* sum_2d_dim_0(X): the sums of the columns of X
Sum2dDim0(X) ==
    [c \in Arange(Cols(X)) |-> SumTo([r \in Arange(Rows(X)) |-> X[r][c]], Rows(X))]

\* triton.ops.matmul(X, W): X is (M, N), W is (N, K)
Matmul(X, W) ==
    [r \in Arange(Rows(X)) |-> [k \in Arange(Cols(W)) |->
        SumTo([n \in Arange(Rows(W)) |-> Mul(At(X, r, n), W[n][k])], Rows(W))]]

\* X.transpose(0, 1) @ Y: X is (M, N), Y is (M, K), the product is (N, K)
MatmulTransposed(X, Y) ==
    [n \in Arange(Cols(X)) |-> [k \in Arange(Cols(Y)) |->
        SumTo([r \in Arange(Rows(X)) |-> Mul(X[r][n], At(Y, r, k))], Rows(X))]]

RECURSIVE NextPowerOf2(_)
\* triton.next_power_of_2(n): the smallest power of two that is at least n
NextPowerOf2(n) == IF n <= 1 THEN 1 ELSE 2 * NextPowerOf2((n + 1) \div 2)

\* t.flatten(0, 1) on a shape
Flatten01(shape) == <<shape[1] * shape[2]>> \o SubSeq(shape, 3, Len(shape))

\* t if t.ndim == 2 else t.flatten(0, 1)
Flattened(shape) == IF Len(shape) = 2 THEN shape ELSE Flatten01(shape)

-----------------------------------------------------------------------------
(* fused_matmul_backward *)

HostBlockM(M) == Min(NextPowerOf2(M), HOST_BLOCK_M_CAP)

DimsCompatibleAlways(grad_out_shape, weight) == TRUE

\* assert grad_out_.shape[1] == weight.shape[0]
DimsCompatible(grad_out_shape, weight) == grad_out_shape[2] = Rows(weight)

\* lines 252-262: make grad_out contiguous, flatten it, check it against the weight
Entry ==
    /\ pc = "start"
    /\ LET grad_out_shape == Flattened(call.gshape)
           copied == IF call.contiguous THEN << >> ELSE <<"contiguous">>
       IN  /\ ops' = ops \o copied
           /\ IF ~DimsCompatible(grad_out_shape, call.weight)
              THEN /\ pc' = "raised"
                   /\ ret' = [NoRet EXCEPT !.error = "AssertionError"]
                   /\ loc' = loc
              ELSE IF Len(grad_out_shape) # 2
              THEN \* M, N = grad_out_.shape cannot unpack
                   /\ pc' = "raised"
                   /\ ret' = [NoRet EXCEPT !.error = "ValueError"]
                   /\ loc' = loc
              ELSE /\ pc' = "checked"
                   /\ ret' = ret
                   /\ loc' = [loc EXCEPT !.M = grad_out_shape[1],
                                         !.N = Rows(call.weight),
                                         !.K = Cols(call.weight),
                                         !.grad_out_ = call.grad_out]
    /\ UNCHANGED <<call, allocs, kvars, avars>>

ComputeDBiasAlways(trainable_bias) == TRUE

\* COMPUTE_D_BIAS=trainable_bias
ComputeDBias(trainable_bias) == trainable_bias

\* lines 266-295: allocate grad_act (and the partial bias sums), launch kernel_bw_act
ActivationStage ==
    /\ pc = "checked"
    /\ call.activation_grad # "None"
    /\ LET act_in == IF call.act_in = NoBuffer THEN loc.grad_out_ ELSE call.act_in
           BLOCK_M == HostBlockM(loc.M)
           BLOCK_N == HOST_BLOCK_N
       IN  /\ allocs' = allocs \cup {"grad_act"}
                        \cup (IF call.trainable_bias THEN {"grad_bias"} ELSE {})
           /\ kernel' = "kernel_bw_act"
           /\ meta' = BwActMeta(loc.M, loc.N, BLOCK_M, BLOCK_N, call.activation_grad,
                                ComputeDBias(call.trainable_bias))
           /\ mem' = BwActMem(loc.grad_out_, act_in, loc.M, loc.N, BLOCK_M,
                              call.trainable_bias, mem.garbage)
           /\ pending' = BwActGrid(loc.M, loc.N, BLOCK_M, BLOCK_N)
    /\ accesses' = {} /\ executed' = {}
    /\ ops' = Append(ops, "kernel_bw_act")
    /\ pc' = "kernel"
    /\ UNCHANGED <<call, loc, ret, avars>>

\* activation_grad is None: the incoming gradient is used as it is
NoActivationStage ==
    /\ pc = "checked"
    /\ call.activation_grad = "None"
    /\ pc' = "post_act"
    /\ UNCHANGED <<call, loc, allocs, ops, ret, kvars, avars>>

\* lines 298-302, once every program of the grid has run
AfterKernel ==
    /\ pc = "kernel"
    /\ pending = {}
    /\ loc' = [loc EXCEPT !.grad_bias = IF call.trainable_bias
                                        THEN Sum2dDim0(mem.GRAD_BIAS) ELSE NoBuffer,
                          !.grad_out_ = mem.GRAD_ACT]
    /\ ops' = IF call.trainable_bias THEN Append(ops, "sum_2d_dim_0") ELSE ops
    /\ pc' = "post_act"
    /\ UNCHANGED <<call, allocs, ret, kvars, avars>>

\* lines 304-324: the weight gradient, by the dense product (the tiled kernel is behind "if False")
WeightStage ==
    /\ pc = "post_act"
    /\ IF call.trainable_weight
       THEN /\ loc' = [loc EXCEPT !.grad_weight = MatmulTransposed(loc.grad_out_, call.inputs)]
            /\ ops' = Append(ops, "transpose_matmul")
            /\ allocs' = allocs \cup {"grad_weight"}
       ELSE UNCHANGED <<loc, ops, allocs>>
    /\ pc' = "post_weight"
    /\ UNCHANGED <<call, ret, kvars, avars>>

\* lines 326-332: the input gradient, the bias gradient when no kernel made it, the return
Epilogue ==
    /\ pc = "post_weight"
    /\ LET grad_in == Matmul(loc.grad_out_, call.weight)
           late_bias == loc.grad_bias = NoBuffer /\ call.trainable_bias
           grad_bias == IF late_bias THEN Sum2dDim0(loc.grad_out_) ELSE loc.grad_bias
       IN  /\ ops' = Append(ops, "matmul") \o (IF late_bias THEN <<"sum_2d_dim_0">> ELSE << >>)
           /\ loc' = [loc EXCEPT !.grad_bias = grad_bias]
           /\ ret' = [NoRet EXCEPT !.grad_in = grad_in,
                                   !.shape = call.ishape,
                                   !.grad_weight = IF call.trainable_weight
                                                   THEN loc.grad_weight ELSE NoBuffer,
                                   !.grad_bias = grad_bias]
    /\ pc' = "done"
    /\ UNCHANGED <<call, allocs, kvars, avars>>

\* the shapes a tensor of M rows may come in: (M, C), (1, M, C), (M, 1, C), (1, 1, M, C)
Shapes(M, C) == {<<M, C>>, <<1, M, C>>, <<M, 1, C>>, <<1, 1, M, C>>}

InputShapes(M, C) == {<<M, C>>, <<1, M, C>>, <<M, 1, C>>}

\* the last dimensions of grad_out the model calls with: small ones, and the block size
\* of the host and one more
HostNs == (1..MaxN) \cup {HOST_BLOCK_N, HOST_BLOCK_N + 1}

Init ==
    /\ AttentionIdle
    /\ pc = "start"
    /\ loc = NoLoc /\ allocs = {} /\ ops = << >> /\ ret = NoRet
    /\ kernel = "none" /\ meta = NoMeta /\ pending = {} /\ accesses = {} /\ executed = {}
    /\ \E garbage \in GarbageValues : mem = [NoMem EXCEPT !.garbage = garbage]
    /\ \E M \in 1..MaxM, N \in HostNs, K \in 1..MaxK, seed \in Seeds,
          mismatch \in BOOLEAN, contiguous \in BOOLEAN,
          trainable_weight \in BOOLEAN, trainable_bias \in BOOLEAN,
          activation_grad \in ActivationGrads \cup {"None"} :
        \E gshape \in Shapes(M, N), ishape \in InputShapes(M, K),
           with_act_in \in (IF activation_grad = "None" THEN {FALSE} ELSE BOOLEAN) :
            call = [gshape |-> gshape,
                    contiguous |-> contiguous,
                    grad_out |-> GenMatrix(seed, 0, M, N),
                    ishape |-> ishape,
                    inputs |-> GenMatrix(seed, 2, M, K),
                    act_in |-> IF with_act_in THEN GenMatrix(seed, 1, M, N) ELSE NoBuffer,
                    weight |-> GenMatrix(seed, 3, IF mismatch THEN N + 1 ELSE N, K),
                    trainable_weight |-> trainable_weight,
                    trainable_bias |-> trainable_bias,
                    activation_grad |-> activation_grad]

Next ==
    \/ Entry
    \/ ActivationStage
    \/ NoActivationStage
    \/ \E pid \in pending : KernelBwAct(pid)
    \/ AfterKernel
    \/ WeightStage
    \/ Epilogue

Spec == Init /\ [][Next]_vars

-----------------------------------------------------------------------------
(* Attention: InputProjection and MultiHeadDispatch, as the specification  *)
(* and tests/test_attentions.py describe them.  A tensor is an object      *)
(* (id) of shape (batch, seq, dim_model) with one value per position.      *)

DIM_MODEL == 2

\* the InProjParams of a stream
ParamSets == {[out_features |-> o, bias |-> b] : o \in {DIM_MODEL, DIM_MODEL \div 2}, b \in BOOLEAN}

SameParamsAlways(p1, p2) == TRUE

\* two InProjParams are structurally identical
SameParams(p1, p2) == p1.out_features = p2.out_features /\ p1.bias = p2.bias

\* InputProjection(query_proj_params, key_proj_params, value_proj_params, self_attention):
\* None for the key or the value takes the query's parameters; self-attention with
\* differing parameters fails at construction
ConstructInputProjection ==
    /\ in_proj.state = "none"
    /\ \E self_attention \in BOOLEAN, bias \in BOOLEAN, key_params \in ParamSets \cup {NoParams} :
        LET query_params == [out_features |-> DIM_MODEL, bias |-> bias]
            kv_params == IF key_params = NoParams THEN query_params ELSE key_params
        IN  in_proj' = [state |-> IF self_attention /\ ~SameParams(query_params, kv_params)
                                  THEN "failed" ELSE "built",
                        self_attention |-> self_attention,
                        query |-> query_params, key |-> kv_params, value |-> kv_params]
    /\ UNCHANGED <<multi_head, fwd, hvars, kvars>>

\* MultiHeadDispatch(..., attention, in_proj_container, self_attention)
ConstructMultiHeadDispatch ==
    /\ in_proj.state = "built"
    /\ multi_head.state = "none"
    /\ \E causal \in BOOLEAN, requires_same \in BOOLEAN :
        multi_head' = [state |-> "built", self_attention |-> in_proj.self_attention,
                       causal |-> causal, requires_same_k_q_dimensions |-> requires_same,
                       dim_model |-> DIM_MODEL]
    /\ UNCHANGED <<in_proj, fwd, hvars, kvars>>

\* the batch sizes a tensor may come with: 1, B - 1 and B
BatchSizes == {1, MaxBatch - 1, MaxBatch}

PositionValues == {0, 1}

\* the tensors a caller may pass as object id
Tensors(id) ==
    UNION {{[id |-> id, batch |-> b, seq |-> n, data |-> d] :
                b \in BatchSizes, d \in [1..n -> PositionValues]} : n \in 1..MaxSeq}

Max(x, y) == IF x > y THEN x ELSE y

\* batch sizes broadcast when every size that is not 1 is the same
Broadcastable(bq, bk, bv) ==
    \A x \in {bq, bk, bv}, y \in {bq, bk, bv} : x = 1 \/ y = 1 \/ x = y

ResultBatchOfQuery(bq, bk, bv) == bq

\* the batch size of the result: the largest of the three
ResultBatch(bq, bk, bv) == Max(bq, Max(bk, bv))

SelfAttentionInputsOkByShape(q, k, v) ==
    k.batch = q.batch /\ k.seq = q.seq /\ v.batch = q.batch /\ v.seq = q.seq

\* key and value are the very object the query is
SelfAttentionInputsOk(q, k, v) == k.id = q.id /\ v.id = q.id

\* the affine projection of one stream
Project(params, x) == params.out_features * x + (IF params.bias THEN 1 ELSE 0)

AllowedPositionsUnmasked(causal, i, n) == 1..n

\* the key/value positions query position i attends to
AllowedPositions(causal, i, n) == IF causal THEN 1..Min(i, n) ELSE 1..n

RECURSIVE SumOver(_, _)
\* the sum of f over the positions S
SumOver(f, S) == IF S = {} THEN 0
                 ELSE LET j == CHOOSE x \in S : TRUE IN f[j] + SumOver(f, S \ {j})

\* the output at query position i: the weighted sum of the values and the sum of the
\* weights (their quotient is the attention output), with the positive weights 1 + q.k
AttendAt(i, qdata, kdata, vdata, causal) ==
    LET n == Len(kdata)
        w == [j \in 1..n |-> 1 + Project(in_proj.query, qdata[i]) * Project(in_proj.key, kdata[j])]
        S == AllowedPositions(causal, i, n)
    IN  <<SumOver([j \in 1..n |-> w[j] * Project(in_proj.value, vdata[j])], S), SumOver(w, S)>>

\* MultiHeadDispatch.forward(query, key, value)
Forward ==
    /\ multi_head.state = "built"
    /\ fwd.status = "none"
    /\ \E q \in Tensors(1) :
       \E k \in {q} \cup Tensors(2) :
       \E v \in {q, k} \cup Tensors(3) :
        /\ k.seq = v.seq
        \* the caller checks requires_same_k_q_dimensions before passing other lengths
        /\ multi_head.requires_same_k_q_dimensions => q.seq = k.seq
        /\ fwd' =
            IF ~Broadcastable(q.batch, k.batch, v.batch)
            THEN [NoForward EXCEPT !.status = "error", !.error = "DimensionMismatchError",
                                   !.query = q, !.key = k, !.value = v]
            ELSE IF (in_proj.self_attention \/ multi_head.self_attention)
                    /\ ~SelfAttentionInputsOk(q, k, v)
            THEN [NoForward EXCEPT !.status = "error", !.error = "AssertionError",
                                   !.query = q, !.key = k, !.value = v]
            ELSE [NoForward EXCEPT
                    !.status = "ok",
                    !.shape = <<ResultBatch(q.batch, k.batch, v.batch), q.seq,
                                multi_head.dim_model>>,
                    !.out = [i \in 1..q.seq |->
                                AttendAt(i, q.data, k.data, v.data, multi_head.causal)],
                    !.query = q, !.key = k, !.value = v]
    /\ UNCHANGED <<in_proj, multi_head, hvars, kvars>>

\* the call has returned or raised; the dispatch is ready for the next one
Return ==
    /\ fwd.status # "none"
    /\ fwd' = NoForward
    /\ UNCHANGED <<in_proj, multi_head, hvars, kvars>>

InitAttention == HostIdle /\ KernelIdle /\ AttentionIdle

NextAttention == ConstructInputProjection \/ ConstructMultiHeadDispatch \/ Forward \/ Return

SpecAttention == InitAttention /\ [][NextAttention]_vars

-----------------------------------------------------------------------------
(* The unfused reference: three independent dense operations on the call's arguments *)

RECURSIVE Sigma(_, _)
Sigma(f, n) == IF n = 0 THEN 0 ELSE Sigma(f, n - 1) + f[n - 1]

\* grad_output * act'(pre_activation), elementwise
RefPreActivationGrad(grad_out, act_in, activation_grad) ==
    [r \in DOMAIN grad_out |-> [c \in DOMAIN grad_out[r] |->
        grad_out[r][c] * ActivationGradOf(activation_grad, act_in[r][c])]]

\* G @ W
RefGradInput(G, W) ==
    [r \in DOMAIN G |-> [k \in DOMAIN W[0] |->
        Sigma([n \in DOMAIN W |-> G[r][n] * W[n][k]], Cardinality(DOMAIN W))]]

\* G^T @ X
RefGradWeight(G, X) ==
    [n \in DOMAIN G[0] |-> [k \in DOMAIN X[0] |->
        Sigma([r \in DOMAIN G |-> G[r][n] * X[r][k]], Cardinality(DOMAIN G))]]

\* the column sums of G over the M axis
RefGradBias(G) ==
    [n \in DOMAIN G[0] |-> Sigma([r \in DOMAIN G |-> G[r][n]], Cardinality(DOMAIN G))]

\* the gradient that flows up from the activation in this call
RefUpstream ==
    IF call.activation_grad = "None" THEN call.grad_out
    ELSE RefPreActivationGrad(call.grad_out,
                              IF call.act_in = NoBuffer THEN call.grad_out ELSE call.act_in,
                              call.activation_grad)

-----------------------------------------------------------------------------
(* C1: fusion equivalence.  A call with an activation derivative and a     *)
(* pre-activation input returns grad_input = (grad_output * act'(pre)) @   *)
(* weight, grad_weight = (grad_output * act'(pre))^T @ input and grad_bias *)
(* = the column sums of grad_output * act'(pre), as the unfused reference. *)
C1_FusionEquivalence ==
    (pc = "done" /\ call.activation_grad # "None" /\ call.act_in # NoBuffer) =>
        LET G == RefPreActivationGrad(call.grad_out, call.act_in, call.activation_grad)
        IN  /\ ret.grad_in = RefGradInput(G, call.weight)
            /\ call.trainable_weight => ret.grad_weight = RefGradWeight(G, call.inputs)
            /\ call.trainable_bias => ret.grad_bias = RefGradBias(G)

\* a fused call over two column tiles with a masked row returns non-zero gradients
C1_Witness ==
    /\ pc = "done" /\ call.activation_grad # "None" /\ call.act_in # NoBuffer
    /\ call.trainable_weight /\ call.trainable_bias
    /\ loc.M = 3 /\ loc.N > HOST_BLOCK_N
    /\ \E n \in DOMAIN ret.grad_bias : ret.grad_bias[n] # 0
    /\ \E r \in DOMAIN ret.grad_in : \E k \in DOMAIN ret.grad_in[r] : ret.grad_in[r][k] # 0

(* C5: skip policy.  With trainable_bias false no bias buffer is allocated, *)
(* no bias reduction runs (neither the partial sum in the kernel nor        *)
(* sum_2d_dim_0) and grad_bias is None; with trainable_weight false no      *)
(* weight-gradient product runs and grad_weight is None; grad_input is      *)
(* returned all the same, with the value the arguments alone decide.        *)
C5_SkipPolicy ==
    /\ ~call.trainable_bias =>
          /\ "grad_bias" \notin allocs
          /\ \A i \in DOMAIN ops : ops[i] # "sum_2d_dim_0"
          /\ \A a \in accesses : a[3] # "GRAD_BIAS"
          /\ pc = "done" => ret.grad_bias = NoBuffer
    /\ ~call.trainable_weight =>
          /\ "grad_weight" \notin allocs
          /\ \A i \in DOMAIN ops : ops[i] # "transpose_matmul"
          /\ pc = "done" => ret.grad_weight = NoBuffer
    /\ pc = "done" => ret.grad_in = RefGradInput(RefUpstream, call.weight)

\* a call with both parameters frozen has run its kernel and returned
C5_Witness ==
    /\ pc = "done" /\ ~call.trainable_bias /\ ~call.trainable_weight
    /\ call.activation_grad # "None" /\ accesses # {}
    /\ ret.grad_in # NoBuffer /\ ret.grad_weight = NoBuffer /\ ret.grad_bias = NoBuffer

\* the last dimension of grad_out differs from weight.shape[0]
DimensionMismatch == call.gshape[Len(call.gshape)] # Rows(call.weight)

(* C7: a dimension mismatch fails before any compute.  When the last        *)
(* dimension of grad_out differs from weight.shape[0] the call raises, with *)
(* no gradient buffer allocated, no kernel, reduction or matrix product     *)
(* run, and nothing returned.                                               *)
C7_MismatchFailsFirst ==
    (DimensionMismatch /\ pc # "start") =>
        /\ pc = "raised" /\ ret.error # ""
        /\ allocs = {}
        /\ kernel = "none" /\ accesses = {}
        /\ \A i \in DOMAIN ops : ops[i] = "contiguous"
        /\ ret.grad_in = NoBuffer /\ ret.grad_weight = NoBuffer /\ ret.grad_bias = NoBuffer

\* a mismatching call of a non-contiguous grad_out has raised
C7_Witness ==
    /\ DimensionMismatch /\ pc = "raised" /\ ret.error = "AssertionError"
    /\ ~call.contiguous /\ call.trainable_weight /\ call.trainable_bias

RECURSIVE ProductTo(_, _)
\* shape[1] * ... * shape[n]
ProductTo(shape, n) == IF n = 0 THEN 1 ELSE ProductTo(shape, n - 1) * shape[n]

\* the product of the leading dimensions of a shape: all but the last
LeadingProduct(shape) == ProductTo(shape, Len(shape) - 1)

(* C15: flattening of leading dimensions.  For a grad_out and a layer      *)
(* input with any number (>= 1) of leading dimensions and matching last    *)
(* dimensions, the call does not fail: it computes on 2-D matrices with M  *)
(* the product of all leading dimensions, and returns a grad_input of M    *)
(* rows and K columns with exactly the shape of the layer input.           *)
C15_FlattenLeadingDims ==
    (~DimensionMismatch /\ pc # "start") =>
        /\ pc # "raised"
        /\ loc.M = LeadingProduct(call.gshape)
        /\ pc = "done" =>
              /\ ret.shape = call.ishape
              /\ Rows(ret.grad_in) = LeadingProduct(call.ishape)
              /\ Cols(ret.grad_in) = call.ishape[Len(call.ishape)]

-----------------------------------------------------------------------------
(* Claims about the kernels, over every launch of SpecKernel *)

BwActLaunched == kernel = "kernel_bw_act"

MatmulTLaunched == kernel = "kernel_matmul_transpose"

\* the tiles of the activation-gradient grid
BwActTiles == BwActGrid(meta.M, meta.N, meta.BLOCK_M, meta.BLOCK_N)

\* the programs that stored to element (r, c) of buf
Writers(buf, r, c) == {a[1] : a \in {x \in accesses : x[2] = "store" /\ x[3] = buf
                                                       /\ x[4] = r /\ x[5] = c}}

(* C3: in kernel_bw_act no load from the pre-activation input or grad_out  *)
(* and no store to the pre-activation gradient or the bias partial buffer  *)
(* touches a row >= M or a column >= N; EVEN_BLOCKS holds only when every  *)
(* tile lies fully in range, and on the masked path the out-of-range       *)
(* elements of a tile read as zero.                                        *)
C3_BwActInRange ==
    BwActLaunched =>
        /\ \A a \in accesses :
              /\ a[5] < meta.N
              /\ a[3] # "GRAD_BIAS" => a[4] < meta.M
        /\ meta.EVEN_BLOCKS =>
              \A pid \in BwActTiles :
                  \A p \in BwAct_rm(pid[1]) \X BwAct_rn(pid[2]) : p[1] < meta.M /\ p[2] < meta.N
        /\ ~meta.EVEN_BLOCKS =>
              \A pid \in BwActTiles :
                  \A p \in BwAct_rm(pid[1]) \X BwAct_rn(pid[2]) :
                      (p[1] >= meta.M \/ p[2] >= meta.N) =>
                          BwAct_act_in(p[1], p[2]) = 0 /\ BwAct_grad_out(p[1], p[2]) = 0

\* every tile of a grid whose last row tile and last column tile are both partial has run
C3_Witness ==
    /\ BwActLaunched /\ pending = {} /\ accesses # {}
    /\ ~meta.EVEN_BLOCKS /\ meta.COMPUTE_D_BIAS
    /\ meta.M % meta.BLOCK_M # 0 /\ meta.N % meta.BLOCK_N # 0
    /\ Cardinality(BwActTiles) > 1

\* the pre-activation gradient of the whole launch
RefGradAct == RefPreActivationGrad(mem.GRAD_OUT, mem.ACT_INPUTS, meta.ACTIVATION_GRAD)

\* the partial bias sums of the whole launch: row pid_m sums the rows of tile row pid_m
RefPartialBias ==
    [pm \in Arange(cdiv(meta.M, meta.BLOCK_M)) |-> [n \in Arange(meta.N) |->
        Sigma([i \in Arange(meta.BLOCK_M) |->
                  IF pm * meta.BLOCK_M + i < meta.M
                  THEN RefGradAct[pm * meta.BLOCK_M + i][n] ELSE 0],
              meta.BLOCK_M)]]

(* C6: the tiles of the activation-gradient stage write disjoint regions.  *)
(* No element of the pre-activation gradient and no cell of the bias       *)
(* partial buffer is stored by two tiles, every bias store lands on a row  *)
(* of the buffer, and once every tile has run each in-range element and    *)
(* each cell was stored exactly once and the buffers hold the same values  *)
(* whatever the order the tiles ran in.                                    *)
C6_DisjointTiles ==
    BwActLaunched =>
        /\ \A a \in accesses : a[2] = "store" => Cardinality(Writers(a[3], a[4], a[5])) = 1
        /\ \A a \in accesses : a[3] = "GRAD_BIAS" => InRange(mem.GRAD_BIAS, a[4], a[5])
        /\ pending = {} =>
              /\ \A r \in Arange(meta.M), c \in Arange(meta.N) :
                    Cardinality(Writers("GRAD_ACT", r, c)) = 1
              /\ mem.GRAD_ACT = RefGradAct
              /\ meta.COMPUTE_D_BIAS =>
                    /\ \A r \in DOMAIN mem.GRAD_BIAS, c \in Arange(meta.N) :
                          Cardinality(Writers("GRAD_BIAS", r, c)) = 1
                    /\ mem.GRAD_BIAS = RefPartialBias

\* a grid of several tile rows has run, every tile row has stored its bias partial sums
C6_Witness ==
    /\ BwActLaunched /\ pending = {} /\ meta.COMPUTE_D_BIAS
    /\ cdiv(meta.M, meta.BLOCK_M) > 1 /\ cdiv(meta.N, meta.BLOCK_N) > 1
    /\ Rows(mem.GRAD_BIAS) > 1
    /\ \E r \in DOMAIN mem.GRAD_BIAS : \E c \in DOMAIN mem.GRAD_BIAS[r] : mem.GRAD_BIAS[r][c] # 0

\* Out = A^T B of the whole launch
RefOut == RefGradWeight(mem.A, mem.B)

(* C2: masking does not alter results.  Once every tile has run, the       *)
(* pre-activation gradient and bias partial sums of kernel_bw_act and the  *)
(* output of kernel_matmul_transpose are the values of the logical         *)
(* matrices, on the masked path as on the EVEN_BLOCKS path.                *)
C2_MaskingKeepsResults ==
    pending = {} =>
        /\ BwActLaunched =>
              /\ mem.GRAD_ACT = RefGradAct
              /\ meta.COMPUTE_D_BIAS => mem.GRAD_BIAS = RefPartialBias
        /\ MatmulTLaunched => mem.C = RefOut

(* C4: in kernel_matmul_transpose off the EVEN_BLOCKS path, the loads of A *)
(* and of B are masked exactly where the row is >= M or the column is out  *)
(* of range, so no row >= M of A or B is read, and every store to the      *)
(* output has n < N and k < K.                                             *)
C4_MatmulTMasked ==
    (MatmulTLaunched /\ ~meta.EVEN_BLOCKS /\ accesses # {}) =>
        /\ \A r \in MT_rows, rk \in Arange(cdiv(meta.K, meta.BLOCK_K) * meta.BLOCK_K) :
              MT_b_mask(r, rk) <=> (r < meta.M /\ rk < meta.K)
        /\ \A r \in MT_rows, rn \in Arange(cdiv(meta.N, meta.BLOCK_N) * meta.BLOCK_N) :
              MT_a_mask(r, rn) <=> (r < meta.M /\ rn < meta.N)
        /\ \A a \in accesses :
              /\ a[2] = "load" => a[4] < meta.M
              /\ a[2] = "store" => a[4] < meta.N /\ a[5] < meta.K

(* C13: the tiled weight-gradient kernel is interchangeable with the dense *)
(* product.  Once kernel_matmul_transpose has run over its grid, whatever  *)
(* the block sizes, Out[n][k] is the sum over m < M of A[m][n] * B[m][k]   *)
(* for all n < N and k < K: the output is the matrix the dense path        *)
(* grad_out_.transpose(0, 1) @ inputs_ of fused_matmul_backward makes.     *)
C13_TiledEqualsDense ==
    (MatmulTLaunched /\ pending = {}) => mem.C = MatmulTransposed(mem.A, mem.B)

(* C14: the fast path.  When EVEN_BLOCKS is true no program of             *)
(* kernel_bw_act or kernel_matmul_transpose computes a validity mask or    *)
(* executes a masked load, a masked store or a select on a mask: all it    *)
(* executes are plain loads and stores.                                    *)
C14_FastPathSkipsMasks ==
    meta.EVEN_BLOCKS => \A e \in executed : e[3] \in {"load", "store"}

\* the grid of kernel_matmul_transpose: tile rows, tile columns, programs
MT_num_pid_n == cdiv(meta.N, meta.BLOCK_N)

MT_num_pid_k == cdiv(meta.K, meta.BLOCK_K)

MT_programs == MatmulTGrid(meta.N, meta.K, meta.BLOCK_N, meta.BLOCK_K)

(* C12: the grouped tile ordering is a bijection.  For every program id of *)
(* the grid of kernel_matmul_transpose, 0 <= pid_n < cdiv(N, BLOCK_N) and  *)
(* 0 <= pid_k < cdiv(K, BLOCK_K); every output tile belongs to exactly one *)
(* program, also in a last group narrower than GROUP_N; so no element of   *)
(* the output is stored twice and, once the grid has run, every element    *)
(* was stored once.                                                        *)
C12_GroupedOrderingBijection ==
    MatmulTLaunched =>
        /\ \A pid \in MT_programs :
              /\ MT_tile(pid).pid_n \in Arange(MT_num_pid_n)
              /\ MT_tile(pid).pid_k \in Arange(MT_num_pid_k)
        /\ \A n \in Arange(MT_num_pid_n), k \in Arange(MT_num_pid_k) :
              Cardinality({pid \in MT_programs :
                              MT_tile(pid) = [pid_n |-> n, pid_k |-> k]}) = 1
        /\ \A a \in accesses : a[2] = "store" => Cardinality(Writers("C", a[4], a[5])) = 1
        /\ pending = {} =>
              \A n \in Arange(meta.N), k \in Arange(meta.K) :
                  Cardinality(Writers("C", n, k)) = 1

\* a grid of several tile columns whose last group is narrower than GROUP_N, but wider
\* than one tile row, has run
C12_Witness ==
    /\ MatmulTLaunched /\ pending = {} /\ accesses # {}
    /\ MT_num_pid_n > meta.GROUP_N
    /\ MT_num_pid_n % meta.GROUP_N >= 2
    /\ MT_num_pid_k > 1

-----------------------------------------------------------------------------
(* Claims about the attention dispatch, over SpecAttention *)

\* the batch sizes of the last call are one of (1,B,B), (B,1,B), (B,B,1), (1,1,B),
\* (B,1,1), (1,B,1) for the B > 1 given
BroadcastCase(B) ==
    <<fwd.query.batch, fwd.key.batch, fwd.value.batch>> \in
        {<<1, B, B>>, <<B, 1, B>>, <<B, B, 1>>, <<1, 1, B>>, <<B, 1, 1>>, <<1, B, 1>>}

(* C8: batch broadcasting.  For batch sizes (1,B,B), (B,1,B), (B,B,1),     *)
(* (1,1,B), (B,1,1), (1,B,1) with B > 1 and a variant that does not        *)
(* require equal key/query dimensions (in a dispatch not set up for        *)
(* self-attention), forward succeeds with output shape                     *)
(* [B, seq_q, embedding_dim].                                              *)
C8_BatchBroadcast ==
    \A B \in 2..MaxBatch :
        (/\ fwd.status # "none" /\ BroadcastCase(B)
         /\ ~multi_head.requires_same_k_q_dimensions /\ ~multi_head.self_attention)
        => /\ fwd.status = "ok"
           /\ fwd.shape = <<B, fwd.query.seq, DIM_MODEL>>

\* a call with a batched key only, and a longer key than query, has succeeded
C8_Witness ==
    /\ fwd.status = "ok" /\ BroadcastCase(MaxBatch)
    /\ fwd.query.batch = 1 /\ fwd.value.batch = 1 /\ fwd.key.batch = MaxBatch
    /\ fwd.query.seq < fwd.key.seq
    /\ ~multi_head.requires_same_k_q_dimensions /\ ~multi_head.self_attention

(* C9: self-attention invariant.  An InputProjection with                  *)
(* self_attention=true and key/value parameters that differ from the       *)
(* query's fails at construction; a self-attention MultiHeadDispatch       *)
(* accepts a call whose key and value are the query object itself and      *)
(* fails a call whose key or value is another object, even of the same     *)
(* shape.                                                                  *)
C9_SelfAttentionInvariant ==
    /\ (/\ in_proj.state # "none" /\ in_proj.self_attention
        /\ \/ in_proj.key.out_features # in_proj.query.out_features
           \/ in_proj.key.bias # in_proj.query.bias
           \/ in_proj.value.out_features # in_proj.query.out_features
           \/ in_proj.value.bias # in_proj.query.bias)
       => in_proj.state = "failed" /\ multi_head.state = "none" /\ fwd.status = "none"
    /\ (multi_head.state = "built" /\ multi_head.self_attention /\ fwd.status # "none")
       => IF fwd.key.id = fwd.query.id /\ fwd.value.id = fwd.query.id
          THEN fwd.status = "ok"
          ELSE fwd.status = "error"

\* a self-attention dispatch has refused a value that is another object with the
\* query's shape and content
C9_Witness ==
    /\ multi_head.state = "built" /\ multi_head.self_attention
    /\ fwd.status = "error" /\ fwd.error = "AssertionError"
    /\ fwd.key.id = fwd.query.id /\ fwd.value.id # fwd.query.id
    /\ fwd.value.batch = fwd.query.batch /\ fwd.value.seq = fwd.query.seq
    /\ fwd.value.data = fwd.query.data

\* two outputs <<weighted sum, sum of weights>> are the same quotient
SameOutput(o1, o2) == o1[1] * o2[2] = o2[1] * o1[2]

(* C10: causal non-interference.  For a causal variant, a call whose key   *)
(* and value agree with the last call's on every position <= i and differ  *)
(* only after i produces the same output at position i, for every i.       *)
C10_CausalNonInterference ==
    (fwd.status = "ok" /\ multi_head.causal) =>
        \A i \in 1..fwd.query.seq :
            \A kdata \in [1..fwd.key.seq -> PositionValues],
               vdata \in [1..fwd.key.seq -> PositionValues] :
                (\A j \in 1..Min(i, fwd.key.seq) :
                    kdata[j] = fwd.key.data[j] /\ vdata[j] = fwd.value.data[j])
                => SameOutput(AttendAt(i, fwd.query.data, kdata, vdata, multi_head.causal),
                              fwd.out[i])

\* a causal call whose output at position 1 differs from the output at position 2,
\* because position 2 also sees the second key and value
C10_Witness ==
    /\ fwd.status = "ok" /\ multi_head.causal
    /\ fwd.query.seq = 2 /\ fwd.key.seq = 2
    /\ fwd.value.data[1] # fwd.value.data[2]
    /\ ~SameOutput(fwd.out[1], fwd.out[2])

====
